---------------------------- MODULE Spec2Model ----------------------------
(***************************************************************************)
(* Reconstruction of the S&P 500 index from CRSP data, as the notebook     *)
(* "HW Guide Part B" (src/unnamed/part_000) runs and documents it.         *)
(*                                                                         *)
(*   - the membership query: the mask over df_constituents for a date;     *)
(*   - Method A: the sum of the constituents' market caps, the level       *)
(*     ratio recurrence and its returns;                                   *)
(*   - Method B: the portfolio rebalanced quarterly, its returns (retx)    *)
(*     and its level.                                                      *)
(*   - the comparison: the inner join of Method B's series with the        *)
(*     official series on the date.                                        *)
(*                                                                         *)
(* Dates are month numbers 1, 2, ...; month m lies in calendar quarter     *)
(* (m - 1) \div MonthsPerQuarter.  Amounts are exact rationals <<n, d>>    *)
(* with d > 0, kept in lowest terms, so that equalities such as            *)
(* "the weights sum to 1" are checked exactly.                             *)
(***************************************************************************)
EXTENDS Integers, Sequences, FiniteSets, TLC

VARIABLES
    df_constituents,  \* the membership table: a sequence of rows
    mydate,           \* the date of the last membership query, 0 before one
    constituents,     \* the rows the last query selected, sorted
    START_DATE,       \* the first month of the run
    df_msix,          \* the official index: month -> spindx, from its first month on
    date,             \* the month read last, START_DATE - 1 before the first
    df_msf,           \* the stock file's rows of that month: permno -> row or NoObs
    sp500_total_market_cap,  \* the last row of the sums: [date, sp500_market_cap]
    approx_A,         \* Method A's last row: [date, level, ret_approx_A]
    dates_A,          \* the months Method A has a level for
    anchor_A,         \* Method A's row of the anchor: [date, level, sp500_market_cap]
    cumret_approx_A,  \* the cumulative return of Method A's last row
    fault_A,          \* Method A's computation error, or None
    weights,          \* Method B's portfolio weights: permno -> weight, None before the first rebalance
    rebalanced,       \* the month of Method B's last rebalance, 0 before the first
    approx_B,         \* Method B's last row: [date, ret_approx_B, level]
    dates_B,          \* the months Method B has a level for
    missing_returns,  \* data-quality counter: weighted securities with no return row
    fault_B,          \* Method B's computation fault, or None
    sp500_returns_B,  \* Method B's series as given to the comparison, then the joined table
    pc                \* where the notebook is: "run", "returns" or "merged"

queryVars == <<mydate, constituents>>
inputVars == <<df_constituents, START_DATE, df_msix>>
methodAVars ==
    <<sp500_total_market_cap, approx_A, dates_A, anchor_A, cumret_approx_A, fault_A>>
methodBVars == <<weights, rebalanced, approx_B, dates_B, missing_returns, fault_B>>
compareVars == <<sp500_returns_B, pc>>
vars == <<queryVars, inputVars, date, df_msf, methodAVars, methodBVars, compareVars>>

----------------------------------------------------------------------------
(* Bounds of the model *)

\* The months of the data: 1..MaxDate.  A membership interval starts and ends
\* in one of them, and the run ends in month MaxDate.
MaxDate == 4

\* Rows of the membership table.
MaxRows == 2

\* The largest price, number of shares and adjustment factor of a row of the
\* stock file whose columns are computed.
MaxQuote == 2

\* The securities (CRSP permno) of the universe.
Permnos == {1, 2}

\* A value that is not there: no row, NaN.
None == <<>>

\* No row of the stock file for a security in a month.
NoObs == <<>>

----------------------------------------------------------------------------
(* Exact rational arithmetic *)

Abs(n) == IF n < 0 THEN -n ELSE n

RECURSIVE Gcd(_, _)
Gcd(a, b) == IF b = 0 THEN a ELSE Gcd(b, a % b)

Sign(n) == IF n < 0 THEN -1 ELSE IF n = 0 THEN 0 ELSE 1

\* n/d in lowest terms.  As in floating point, a division by 0 gives a value
\* that is no number: <<1, 0>> and <<-1, 0>> are the infinities, <<0, 0>> is
\* NaN.
Rat(n, d) ==
    IF d = 0 THEN <<Sign(n), 0>>
    ELSE LET g == Gcd(Abs(n), Abs(d))
             s == IF d < 0 THEN -1 ELSE 1
         IN  <<(s * n) \div g, (s * d) \div g>>

\* x is a number: neither infinite nor NaN.
Finite(x) == x[2] # 0

Zero == <<0, 1>>
One == <<1, 1>>
RInt(n) == <<n, 1>>
RAdd(x, y) == Rat(x[1] * y[2] + y[1] * x[2], x[2] * y[2])
RSub(x, y) == Rat(x[1] * y[2] - y[1] * x[2], x[2] * y[2])
RMul(x, y) == Rat(x[1] * y[1], x[2] * y[2])
RDiv(x, y) == Rat(x[1] * y[2], x[2] * y[1])
RAbs(x) == <<Abs(x[1]), x[2]>>
RLeq(x, y) == x[1] * y[2] <= y[1] * x[2]

\* The sum of f[i] over the finite set S.
RECURSIVE RSum(_, _)
RSum(f, S) ==
    IF S = {} THEN Zero
    ELSE LET i == CHOOSE j \in S : TRUE
         IN  RAdd(f[i], RSum(f, S \ {i}))

----------------------------------------------------------------------------
(* The membership table and the constituents at a given date *)

MembershipRows ==
    [permno : Permnos, mbrstartdt : 1..MaxDate, mbrenddt : 1..MaxDate]

\* A row of crsp_m_indexes.dsp500list_v2: the interval is not empty.
ValidRows == {r \in MembershipRows : r.mbrstartdt <= r.mbrenddt}

SeqsUpTo(S, n) == UNION {[1..k -> S] : k \in 0..n}

\* The mask with the start date left out of the interval.
mask_strict(r, d) == r.mbrstartdt < d /\ r.mbrenddt >= d

\* mask = (df_constituents["mbrstartdt"] <= mydate) &
\*        (df_constituents["mbrenddt"] >= mydate)
mask(r, d) == r.mbrstartdt <= d /\ r.mbrenddt >= d

\* The order of sort_values(by=["mbrstartdt", "mbrenddt"]).
KeyLeq(a, b) ==
    \/ a.mbrstartdt < b.mbrstartdt
    \/ a.mbrstartdt = b.mbrstartdt /\ a.mbrenddt <= b.mbrenddt

\* r placed after the rows of the sorted s whose key is at most r's.
RECURSIVE InsertRow(_, _)
InsertRow(r, s) ==
    IF s = <<>> THEN <<r>>
    ELSE IF KeyLeq(s[Len(s)], r) THEN Append(s, r)
    ELSE Append(InsertRow(r, SubSeq(s, 1, Len(s) - 1)), s[Len(s)])

\* sort_values: rows of equal key keep the order of the table.
RECURSIVE sort_values(_)
sort_values(s) ==
    IF s = <<>> THEN <<>>
    ELSE InsertRow(s[Len(s)], sort_values(SubSeq(s, 1, Len(s) - 1)))

\* df_constituents[mask].sort_values(by=["mbrstartdt", "mbrenddt"])
constituents_at(table, d) ==
    sort_values(SelectSeq(table, LAMBDA r : mask(r, d)))

\* A security taken for a member from its first start date to its last end
\* date, the time between two of its intervals included.
active_members_span(table, d) ==
    {s \in {table[i].permno : i \in 1..Len(table)} :
       /\ \E i \in 1..Len(table) : table[i].permno = s /\ table[i].mbrstartdt <= d
       /\ \E i \in 1..Len(table) : table[i].permno = s /\ table[i].mbrenddt >= d}

\* The securities of the selected rows.
active_members(table, d) ==
    LET c == constituents_at(table, d)
    IN  {c[i].permno : i \in 1..Len(c)}

----------------------------------------------------------------------------
(* The membership query on its own *)

InitQuery ==
    /\ df_constituents \in SeqsUpTo(ValidRows, MaxRows)
    /\ mydate = 0
    /\ constituents = <<>>
    /\ START_DATE = 1
    /\ df_msix = <<>>
    /\ date = 0
    /\ df_msf = [i \in Permnos |-> NoObs]
    /\ sp500_total_market_cap = None
    /\ approx_A = None
    /\ dates_A = {}
    /\ anchor_A = None
    /\ cumret_approx_A = None
    /\ fault_A = None
    /\ weights = None
    /\ rebalanced = 0
    /\ approx_B = None
    /\ dates_B = {}
    /\ missing_returns = 0
    /\ fault_B = None
    /\ sp500_returns_B = <<>>
    /\ pc = "run"

\* The notebook cell "Constituents at a given date".
QueryConstituents(d) ==
    /\ mydate' = d
    /\ constituents' = constituents_at(df_constituents, d)
    /\ UNCHANGED <<inputVars, date, df_msf, methodAVars, methodBVars, compareVars>>

NextQuery == \E d \in 0..(MaxDate + 1) : QueryConstituents(d)

SpecQuery == InitQuery /\ [][NextQuery]_vars

\* The days covered by the intervals of security s.
DaysOf(table, s) ==
    UNION {table[i].mbrstartdt .. table[i].mbrenddt :
             i \in {j \in 1..Len(table) : table[j].permno = s}}

QueriedPermnos == {constituents[i].permno : i \in 1..Len(constituents)}

\* C1: the securities a query for date d selects are exactly those with an
\* interval that covers d, both ends included: a security is selected on its
\* start date and on its end date, and not on the day before its start or
\* the day after its end unless another of its intervals covers that day.
ActiveMembersExact ==
    /\ QueriedPermnos = {s \in Permnos : mydate \in DaysOf(df_constituents, s)}
    /\ \A i \in 1..Len(df_constituents) :
         LET r == df_constituents[i]
         IN  /\ mydate \in {r.mbrstartdt, r.mbrenddt} => r.permno \in QueriedPermnos
             /\ /\ mydate \in {r.mbrstartdt - 1, r.mbrenddt + 1}
                /\ \A j \in 1..Len(df_constituents) :
                     df_constituents[j].permno = r.permno
                       => ~(/\ df_constituents[j].mbrstartdt <= mydate
                            /\ mydate <= df_constituents[j].mbrenddt)
                => r.permno \notin QueriedPermnos

\* A query on the start date of one security, which is the day after the
\* end of the other: the first is selected, the second is not.
ActiveMembersWitness ==
    /\ Len(df_constituents) = 2
    /\ df_constituents[1].permno # df_constituents[2].permno
    /\ mydate = df_constituents[1].mbrstartdt
    /\ mydate = df_constituents[2].mbrenddt + 1
    /\ QueriedPermnos = {df_constituents[1].permno}

----------------------------------------------------------------------------
(* The CRSP monthly stock file: adjusted shares, adjusted price, market cap *)

\* The rows a security can have in a month: a price with both adjustment
\* factors at work (market cap 100), and a negative price, which CRSP
\* reports when it used the bid-ask midpoint (market cap 300).  ret includes
\* the dividends, retx does not.
StockRows ==
    { [prc |-> 20, shrout |-> 5, cfacpr |-> 2, cfacshr |-> 2,
       ret |-> <<-1, 4>>, retx |-> <<-1, 2>>],
      [prc |-> -30, shrout |-> 10, cfacpr |-> 1, cfacshr |-> 1,
       ret |-> <<1, 1>>, retx |-> <<1, 2>>] }

\* df_msf["adj_shrout"] = df_msf["shrout"] * df_msf["cfacshr"]
adj_shrout(o) == RMul(RInt(o.shrout), RInt(o.cfacshr))

\* The price over its factor with the sign CRSP reports it with.
adj_prc_signed(o) == RDiv(RInt(o.prc), RInt(o.cfacpr))

\* df_msf["adj_prc"] = df_msf["prc"].abs() / df_msf["cfacpr"]
adj_prc(o) == RDiv(RAbs(RInt(o.prc)), RInt(o.cfacpr))

\* df_msf["market_cap"] = df_msf["adj_prc"] * df_msf["adj_shrout"]
market_cap(o) == RMul(adj_prc(o), adj_shrout(o))

\* The securities with a row in the month's stock file.
Observed(msf) == {i \in DOMAIN msf : msf[i] # NoObs}

\* The constituents of month t whose market cap is defined.
IndexConstituents(table, t, msf) == active_members(table, t) \cap Observed(msf)

\* The sum over every security with a row, constituent or not.
MarketCapSP500_all_rows(table, t, msf) ==
    RSum([i \in Observed(msf) |-> market_cap(msf[i])], Observed(msf))

\* The sum over the selected rows of the membership table: a security that
\* two rows select is added twice.
MarketCapSP500_per_row(table, t, msf) ==
    LET c == constituents_at(table, t)
        K == {k \in 1..Len(c) : msf[c[k].permno] # NoObs}
    IN  RSum([k \in K |-> market_cap(msf[c[k].permno])], K)

\* MarketCapSP500_t: the sum of MarketCap_{i,t} over the constituents at t.
MarketCapSP500(table, t, msf) ==
    LET I == IndexConstituents(table, t, msf)
    IN  RSum([i \in I |-> market_cap(msf[i])], I)

\* Every month taken to hold index data, also one with no constituent.
HasIndexData_always(table, t) == TRUE

\* A month with no constituent at all holds no index data: neither method
\* has a row for it.
HasIndexData(table, t) == active_members(table, t) # {}

----------------------------------------------------------------------------
(* Method A: simple sum of market caps *)

\* The recurrence with the ratio of the sums upside down.
IndexLevelApproxA_inverted(level, last_cap, cap) == RMul(RDiv(last_cap, cap), level)

\* IndexLevelApproxA_t = MarketCapSP500_t / MarketCapSP500_{t-1}
\*                       * IndexLevelApproxA_{t-1}
IndexLevelApproxA(level, last_cap, cap) == RMul(RDiv(cap, last_cap), level)

\* The ratio of the levels, without the - 1.
ReturnApproxA_gross(last_level, level) == RDiv(level, last_level)

\* R_{A,t} = IndexLevelApproxA_t / IndexLevelApproxA_{t-1} - 1
ReturnApproxA(last_level, level) == RSub(RDiv(level, last_level), One)

\* The level is normalized at the start date to the S&P 500's level: the
\* first month that both the approximation and df_msix have.
Anchored(row) == row # None /\ row.level # None

\* The first value of the official series, whatever its month.
StartLevel_first_official(t) ==
    RInt(df_msix[CHOOSE d \in DOMAIN df_msix : \A e \in DOMAIN df_msix : d <= e])

StartLevel(t) == IF t \in DOMAIN df_msix THEN RInt(df_msix[t]) ELSE None

\* The recurrence with no check of its denominator.
ZeroDenominatorA_unchecked(last_cap) == FALSE

\* The division of the recurrence has no value when the last month's sum
\* of market caps is 0.
ZeroDenominatorA(last_cap) == last_cap = Zero

\* Method A's row for month t, after the row prev and the sum last_cap.
RowA(prev, last_cap, t, cap) ==
    IF Anchored(prev)
    THEN LET level == IndexLevelApproxA(prev.level, last_cap, cap)
         IN  [date |-> t, level |-> level,
              ret_approx_A |-> ReturnApproxA(prev.level, level)]
    ELSE [date |-> t, level |-> StartLevel(t), ret_approx_A |-> None]

\* The returns added up, not compounded.
cumprod_added(last, ret) ==
    IF ret = None THEN None
    ELSE IF last = None THEN RAdd(One, ret)
    ELSE RAdd(last, RAdd(One, ret))

\* (1 + ret).cumprod(): the product of 1 + ret over the rows so far; a row
\* whose return is NaN is skipped and has NaN itself.
cumprod(last, ret) ==
    IF ret = None THEN None
    ELSE IF last = None THEN RAdd(One, ret)
    ELSE RMul(last, RAdd(One, ret))

\* The sum of the month before, None before the first month with index data.
LastCap ==
    IF sp500_total_market_cap = None THEN None
    ELSE sp500_total_market_cap.sp500_market_cap

\* calculate_sp500_total_market_cap, then
\* append_actual_sp500_index_and_approx_returns_A, for month t.
MethodA(t, msf) ==
    IF ~HasIndexData(df_constituents, t)
    THEN UNCHANGED methodAVars
    ELSE LET cap == MarketCapSP500(df_constituents, t, msf)
         IN  /\ sp500_total_market_cap' = [date |-> t, sp500_market_cap |-> cap]
             /\ IF fault_A # None
                THEN UNCHANGED <<approx_A, dates_A, anchor_A, cumret_approx_A, fault_A>>
                ELSE IF Anchored(approx_A) /\ ZeroDenominatorA(LastCap)
                THEN /\ fault_A' = [date |-> t, step |-> "IndexLevelApproxA"]
                     /\ approx_A' = None
                     /\ dates_A' = {}
                     /\ anchor_A' = None
                     /\ cumret_approx_A' = None
                ELSE LET row == RowA(approx_A, LastCap, t, cap)
                     IN  /\ approx_A' = row
                         /\ dates_A' = IF row.level # None THEN dates_A \cup {t}
                                       ELSE dates_A
                         /\ anchor_A' =
                              IF anchor_A = None /\ row.level # None
                              THEN [date |-> t, level |-> row.level,
                                    sp500_market_cap |-> cap]
                              ELSE anchor_A
                         /\ cumret_approx_A' = cumprod(cumret_approx_A, row.ret_approx_A)
                         /\ fault_A' = None

----------------------------------------------------------------------------
(* Method B: portfolio rebalancing *)

MonthsPerQuarter == 3

\* Quarters that begin one month early: months 3 to 5, 6 to 8, ...
quarter_shifted(d) == d \div MonthsPerQuarter

\* The calendar quarter of month d.
quarter(d) == (d - 1) \div MonthsPerQuarter

\* A rebalancing date: the first month of the run's months with index data
\* that falls in a calendar quarter.
IsRebalanceDate(last, t) == last = 0 \/ quarter(t) # quarter(last)

\* Weights for every security with a row, constituent or not.
IndexWeights_all_rows(table, t, msf) ==
    LET total == MarketCapSP500(table, t, msf)
    IN  [i \in DOMAIN msf |->
           IF i \in Observed(msf) THEN RDiv(market_cap(msf[i]), total) ELSE Zero]

\* Weights over the market cap of every row of the month, not of the index.
IndexWeights_whole_market(table, t, msf) ==
    LET I == IndexConstituents(table, t, msf)
        total == MarketCapSP500_all_rows(table, t, msf)
    IN  [i \in DOMAIN msf |->
           IF i \in I THEN RDiv(market_cap(msf[i]), total) ELSE Zero]

\* The same weight for every constituent with a market cap.
IndexWeights_equal(table, t, msf) ==
    LET I == IndexConstituents(table, t, msf)
    IN  [i \in DOMAIN msf |->
           IF i \in I THEN Rat(1, Cardinality(I)) ELSE Zero]

\* The market cap over the total that every member would add up to if each
\* one without a row had the market cap of the largest one with a row.
IndexWeights_missing_filled(table, t, msf) ==
    LET I == IndexConstituents(table, t, msf)
        top == CHOOSE c \in {market_cap(msf[i]) : i \in I} :
                  \A i \in I : RLeq(market_cap(msf[i]), c)
        gone == Cardinality(active_members(table, t) \ I)
        total == RAdd(MarketCapSP500(table, t, msf), RMul(RInt(gone), top))
    IN  [i \in DOMAIN msf |->
           IF i \in I THEN RDiv(market_cap(msf[i]), total) ELSE Zero]

\* w_{i,t} = MarketCap_{i,t} / MarketCapSP500_t if i is a constituent at t,
\* 0 otherwise.
IndexWeights(table, t, msf) ==
    LET I == IndexConstituents(table, t, msf)
        total == MarketCapSP500(table, t, msf)
    IN  [i \in DOMAIN msf |->
           IF i \in I THEN RDiv(market_cap(msf[i]), total) ELSE Zero]

\* A portfolio rebalanced every month.
PortfolioWeights_monthly(w, last, table, t, msf) == IndexWeights(table, t, msf)

\* A portfolio rebalanced in the first month of a calendar quarter and in no
\* other month, the first of the run included.
PortfolioWeights_calendar(w, last, table, t, msf) ==
    IF t % MonthsPerQuarter = 1 THEN IndexWeights(table, t, msf) ELSE w

\* Between rebalancing dates, a security that is no constituent of the month
\* is dropped from the portfolio.
PortfolioWeights_members_only(w, last, table, t, msf) ==
    IF IsRebalanceDate(last, t) THEN IndexWeights(table, t, msf)
    ELSE [i \in DOMAIN w |-> IF i \in active_members(table, t) THEN w[i] ELSE Zero]

\* w^p_{i,t} = w_{i,t} if t is a rebalancing date, w^p_{i,t-1} otherwise.
PortfolioWeights(w, last, table, t, msf) ==
    IF IsRebalanceDate(last, t) THEN IndexWeights(table, t, msf) ELSE w

\* The return with the dividends in it.
ReturnField_ret(o) == o.ret

\* R_{i,t+1}: retx, which leaves the dividends out.
ReturnField(o) == o.retx

\* A security with no row in the month contributes no return.
StockReturn(o) == IF o = NoObs THEN Zero ELSE ReturnField(o)

\* The weights of the securities with a return, scaled to sum to 1 again.
ReturnApproxB_renormalised(w, msf) ==
    LET O == {i \in DOMAIN w : msf[i] # NoObs}
        held == RSum(w, O)
    IN  RSum([i \in O |-> RMul(RDiv(w[i], held), ReturnField(msf[i]))], O)

\* R_{B,t+1} = sum over i of w^p_{i,t} * R_{i,t+1}
ReturnApproxB(w, msf) ==
    RSum([i \in DOMAIN w |-> RMul(w[i], StockReturn(msf[i]))], DOMAIN w)

\* The weighted securities of w that have no return in the month.
MissingReturns(w, msf) == {i \in DOMAIN w : w[i] # Zero /\ msf[i] = NoObs}

\* The level with the returns added, not compounded.
IndexLevelApproxB_additive(prev, t, ret) ==
    IF Anchored(prev) THEN RAdd(prev.level, ret)
    ELSE StartLevel(t)

\* The level: the S&P 500's level at the start date, then compounded by the
\* approximated returns.
IndexLevelApproxB(prev, t, ret) ==
    IF Anchored(prev) THEN RMul(prev.level, RAdd(One, ret))
    ELSE StartLevel(t)

\* The rebalance with no check of its denominator.
ZeroDenominatorB_unchecked(last, table, t, msf) == FALSE

\* A rebalance cannot divide by a total market cap of 0.
ZeroDenominatorB(last, table, t, msf) ==
    IsRebalanceDate(last, t) /\ MarketCapSP500(table, t, msf) = Zero

MethodB(t, msf) ==
    IF fault_B # None \/ ~HasIndexData(df_constituents, t)
    THEN UNCHANGED methodBVars
    ELSE IF ZeroDenominatorB(rebalanced, df_constituents, t, msf)
    THEN /\ fault_B' = [date |-> t, step |-> "rebalance"]
         /\ approx_B' = None
         /\ dates_B' = {}
         /\ UNCHANGED <<weights, rebalanced, missing_returns>>
    ELSE LET ret == IF weights = None THEN None ELSE ReturnApproxB(weights, msf)
             level == IndexLevelApproxB(approx_B, t, ret)
         IN  /\ approx_B' = [date |-> t, ret_approx_B |-> ret, level |-> level]
             /\ dates_B' = IF level # None THEN dates_B \cup {t} ELSE dates_B
             /\ missing_returns' =
                  IF weights = None THEN missing_returns
                  ELSE missing_returns + Cardinality(MissingReturns(weights, msf))
             /\ weights' = PortfolioWeights(weights, rebalanced, df_constituents, t, msf)
             /\ rebalanced' = IF IsRebalanceDate(rebalanced, t) THEN t ELSE rebalanced
             /\ fault_B' = None

----------------------------------------------------------------------------
(* The run: month after month, both methods over the same tables          *)
(*                                                                         *)
(* The membership table and the official index are whole from the start.   *)
(* The stock file is read one month at a time, in date order: df_msf holds *)
(* the rows of the month read last, and each method keeps what its         *)
(* recurrence carries from one month to the next (the last sum and the     *)
(* last level for Method A, the weights, the last rebalance and the last   *)
(* level for Method B) beside the months it has a level for.  The rows of  *)
(* a month are any of StockRows or missing, for every security alike.      *)

\* A security that is a member in month 1, is removed, and re-enters in
\* month 3: two intervals with a gap between them.
Reentry == <<1, 1, 3, MaxDate>>

\* The membership of a security in the run's tables: never a member, a member
\* for the whole span, one that leaves after month 2, one that joins in
\* month 3, one that leaves and re-enters.
RunIntervals == {<<>>, <<1, MaxDate>>, <<1, 2>>, <<3, MaxDate>>, Reentry}

\* The rows of security i for the intervals v = <<start, end, start, end, ...>>.
RECURSIVE IntervalRows(_, _)
IntervalRows(i, v) ==
    IF v = <<>> THEN <<>>
    ELSE <<[permno |-> i, mbrstartdt |-> v[1], mbrenddt |-> v[2]]>>
           \o IntervalRows(i, SubSeq(v, 3, Len(v)))

\* The table with the rows of f: permno -> intervals, in the order of permno.
RECURSIVE TableOf(_, _)
TableOf(f, S) ==
    IF S = {} THEN <<>>
    ELSE LET i == CHOOSE j \in S : \A k \in S : j <= k
         IN  IntervalRows(i, f[i]) \o TableOf(f, S \ {i})

RunTables == {TableOf(f, Permnos) : f \in [Permnos -> RunIntervals]}

\* spindx of month d.
spindx(d) == 100 + 10 * d

Init ==
    /\ df_constituents \in RunTables
    /\ mydate = 0
    /\ constituents = <<>>
    /\ START_DATE \in 1..MonthsPerQuarter
    /\ \E first \in {1, START_DATE + 1} :
         df_msix = [d \in first..MaxDate |-> spindx(d)]
    /\ date = START_DATE - 1
    /\ df_msf = [i \in Permnos |-> NoObs]
    /\ sp500_total_market_cap = None
    /\ approx_A = None
    /\ dates_A = {}
    /\ anchor_A = None
    /\ cumret_approx_A = None
    /\ fault_A = None
    /\ weights = None
    /\ rebalanced = 0
    /\ approx_B = None
    /\ dates_B = {}
    /\ missing_returns = 0
    /\ fault_B = None
    /\ sp500_returns_B = <<>>
    /\ pc = "run"

\* The next month of the stock file is read and both methods take it in.
ReadMonth(msf) ==
    /\ date < MaxDate
    /\ date' = date + 1
    /\ df_msf' = msf
    /\ MethodA(date + 1, msf)
    /\ MethodB(date + 1, msf)
    /\ UNCHANGED <<queryVars, inputVars, compareVars>>

Next == \E msf \in [Permnos -> StockRows \cup {NoObs}] : ReadMonth(msf)

Spec == Init /\ [][Next]_vars

----------------------------------------------------------------------------
(* Properties of Method A *)

\* A month of the run has been read.
Reading == date >= START_DATE

\* The months of the run, up to month d, that hold index data.
PeriodsTo(d) == {t \in START_DATE..d : HasIndexData(df_constituents, t)}

\* Security s is a member in month t: one of its intervals covers t.
MemberAt(s, t) ==
    \E i \in 1..Len(df_constituents) :
       /\ df_constituents[i].permno = s
       /\ t \in df_constituents[i].mbrstartdt .. df_constituents[i].mbrenddt

\* |prc| * shrout * cfacshr / cfacpr of the row of security s, 0 for a
\* security that is left out of the sum.
CapInSum(s, t) ==
    IF MemberAt(s, t) /\ df_msf[s] # NoObs
    THEN Rat(Abs(df_msf[s].prc) * df_msf[s].shrout * df_msf[s].cfacshr,
             df_msf[s].cfacpr)
    ELSE Zero

\* C2: in every month with index data, Method A's total market cap is the sum
\* of the adjusted market caps of the securities that are members in that
\* month and have a row in it; a member with no row is left out, the month's
\* sum is still produced and no error is raised for it.
TotalMarketCapOverObservedMembers ==
    (Reading /\ HasIndexData(df_constituents, date))
      => /\ sp500_total_market_cap # None
         /\ sp500_total_market_cap.date = date
         /\ sp500_total_market_cap.sp500_market_cap
              = RSum([s \in DOMAIN df_msf |-> CapInSum(s, date)], DOMAIN df_msf)
         /\ (fault_A # None => fault_A.date <= date /\ fault_A.step = "IndexLevelApproxA")

\* A month in which one member has no row and a security that is not a
\* member has one: the sum is the market cap of the other member alone.
TotalMarketCapWitness ==
    /\ Reading
    /\ fault_A = None
    /\ \E s, u \in DOMAIN df_msf :
         /\ s # u
         /\ MemberAt(s, date) /\ df_msf[s] = NoObs
         /\ MemberAt(u, date) /\ df_msf[u] # NoObs
         /\ sp500_total_market_cap.date = date
         /\ sp500_total_market_cap.sp500_market_cap = market_cap(df_msf[u])
    /\ approx_A.date = date

\* The rows of security s in the membership table.
RowsOf(s) == {i \in 1..Len(df_constituents) : df_constituents[i].permno = s}

\* Security s was removed from the index and re-entered it later: two of its
\* intervals have months between them that neither covers.
Reentered(s) ==
    \E i, j \in RowsOf(s) :
       df_constituents[i].mbrenddt + 1 < df_constituents[j].mbrstartdt

\* C13: a security with several intervals that do not touch is a member in
\* the months that one of its intervals covers and in no other, the months
\* of the gap included; in a month in which it is a member, one row of the
\* table selects it, it is in the active set, and its market cap enters the
\* month's total once.
ReentryCountedOnce ==
    \A s \in Permnos :
       (Reading /\ Reentered(s))
         => LET covering == {i \in RowsOf(s) :
                               /\ df_constituents[i].mbrstartdt <= date
                               /\ date <= df_constituents[i].mbrenddt}
                selected == constituents_at(df_constituents, date)
                others == RSum([u \in Permnos \ {s} |-> CapInSum(u, date)],
                               Permnos \ {s})
            IN  /\ Cardinality(covering) <= 1
                /\ (s \in active_members(df_constituents, date)) = (covering # {})
                /\ Cardinality({k \in 1..Len(selected) : selected[k].permno = s})
                     = Cardinality(covering)
                /\ HasIndexData(df_constituents, date)
                     => sp500_total_market_cap.sp500_market_cap =
                          IF covering # {} /\ df_msf[s] # NoObs
                          THEN RAdd(others,
                                    Rat(Abs(df_msf[s].prc) * df_msf[s].shrout
                                          * df_msf[s].cfacshr, df_msf[s].cfacpr))
                          ELSE others

\* A security that re-entered, with a row in every month: it was left out of
\* the total in the month of the gap, in which the other security made up
\* the index, and its market cap is in the total once after the re-entry.
ReentryWitness ==
    /\ Reading
    /\ \E s, u \in Permnos :
         /\ s # u
         /\ Reentered(s)
         /\ MemberAt(s, date) /\ ~MemberAt(s, date - 1) /\ MemberAt(s, date - 2)
         /\ MemberAt(u, date - 1) /\ MemberAt(u, date)
         /\ df_msf[s] # NoObs /\ df_msf[u] # NoObs
         /\ sp500_total_market_cap.sp500_market_cap
              = RAdd(market_cap(df_msf[s]), market_cap(df_msf[u]))
         /\ fault_A = None /\ Cardinality(dates_A) >= 3

\* No interval of the membership table covers month t.
Unmatched(t) == \A s \in Permnos : ~MemberAt(s, t)

\* C14: for a month that no membership interval covers, the membership
\* query selects no row and the active set is empty; reading such a month
\* leaves Method A and Method B as they were: neither gets a row, a sum, a
\* weight or a fault for it.
UnmatchedDateIsNoIndexData ==
    [][(date' = date + 1 /\ Unmatched(date'))
         => /\ constituents_at(df_constituents, date') = <<>>
            /\ active_members(df_constituents, date') = {}
            /\ UNCHANGED <<methodAVars, methodBVars>>]_vars

\* The month after a month that no interval covers: both methods went on from
\* the rows they had before it, with no fault.
UnmatchedDateWitness ==
    /\ date - 2 >= START_DATE
    /\ ~Unmatched(date - 2) /\ Unmatched(date - 1) /\ ~Unmatched(date)
    /\ fault_A = None /\ fault_B = None
    /\ approx_A # None /\ approx_A.date = date
    /\ approx_B # None /\ approx_B.date = date
    /\ dates_A = {date - 2, date} /\ dates_B = {date - 2, date}
    /\ approx_A.ret_approx_A # None /\ approx_B.ret_approx_B # None

\* A step that gives Method A a row for a new month.
RowStepA == approx_A' # approx_A /\ approx_A' # None

\* C3: Method A's level is the official level at the anchor, the first month
\* that both the sums and the official series have; in every later month
\* level_A(t) = level_A(t-1) * total_market_cap(t) / total_market_cap(t-1)
\* and return_A(t) = level_A(t) / level_A(t-1) - 1.
LevelARecurrence ==
    [][RowStepA =>
         IF Anchored(approx_A)
         THEN /\ RMul(approx_A'.level, sp500_total_market_cap.sp500_market_cap)
                   = RMul(approx_A.level, sp500_total_market_cap'.sp500_market_cap)
              /\ RMul(RAdd(approx_A'.ret_approx_A, One), approx_A.level)
                   = approx_A'.level
              /\ Finite(approx_A'.level) /\ Finite(approx_A'.ret_approx_A)
         ELSE /\ approx_A'.ret_approx_A = None
              /\ approx_A'.level =
                   IF date' \in DOMAIN df_msix THEN <<df_msix[date'], 1>> ELSE None
              /\ (approx_A # None => approx_A.date \notin DOMAIN df_msix)]_vars

\* Two months after the anchor, with the sum changed in both: the level has
\* moved twice by the ratio of the sums.
LevelAWitness ==
    /\ fault_A = None
    /\ Anchored(approx_A)
    /\ Cardinality(dates_A) >= 3
    /\ approx_A.ret_approx_A \notin {None, Zero}
    /\ approx_A.level # RInt(df_msix[approx_A.date])

\* C10: when the sum of market caps of the month before is 0, Method A's
\* level computation ends in an error that names the month and the step of
\* the recurrence; it keeps no level or return, so none that is NaN or
\* infinite, and no part of the series.
ZeroTotalMarketCapIsAnErrorA ==
    [][/\ ( /\ fault_A = None
            /\ Anchored(approx_A)
            /\ sp500_total_market_cap.sp500_market_cap = Zero
            /\ date' = date + 1
            /\ HasIndexData(df_constituents, date') )
            => /\ fault_A' = [date |-> date', step |-> "IndexLevelApproxA"]
               /\ approx_A' = None
               /\ dates_A' = {}
       /\ fault_A # None
            => /\ fault_A' = fault_A
               /\ approx_A' = None
               /\ dates_A' = {}
       /\ (fault_A' = None /\ Anchored(approx_A'))
            => /\ Finite(approx_A'.level)
               /\ approx_A'.ret_approx_A # None => Finite(approx_A'.ret_approx_A)
      ]_vars

\* The sum of a month after the anchor was 0, the next month has index data:
\* Method A has ended in the error, which names that next month, and holds
\* no level.
ZeroTotalMarketCapWitness ==
    /\ fault_A # None
    /\ fault_A.date = date
    /\ approx_A = None
    /\ dates_A = {}
    /\ sp500_total_market_cap.sp500_market_cap # Zero

\* C18: in every month after the anchor, Method A's cumulative return, the
\* product of 1 + return_A over the months after the anchor up to that
\* month, is the month's level over the anchor's level, and is the month's
\* total market cap over the anchor's total market cap.
CumulativeReturnIsLevelRatio ==
    (fault_A = None /\ Anchored(approx_A) /\ approx_A.date > anchor_A.date)
      => /\ cumret_approx_A # None /\ Finite(cumret_approx_A)
         /\ RMul(cumret_approx_A, anchor_A.level) = approx_A.level
         /\ RMul(cumret_approx_A, anchor_A.sp500_market_cap)
              = sp500_total_market_cap.sp500_market_cap
         /\ anchor_A.sp500_market_cap # Zero
         /\ anchor_A.level = <<df_msix[anchor_A.date], 1>>

\* Two months after the anchor, each with a return other than 0: the
\* cumulative return is the product of two factors other than 1.
CumulativeReturnWitness ==
    /\ fault_A = None
    /\ Anchored(approx_A)
    /\ Cardinality(dates_A) >= 3
    /\ approx_A.ret_approx_A \notin {None, Zero}
    /\ cumret_approx_A \notin {None, One, RAdd(One, approx_A.ret_approx_A)}
    /\ RMul(cumret_approx_A, anchor_A.level) = approx_A.level

----------------------------------------------------------------------------
(* Properties of Method B *)

\* The members of month t that have a row in the month's stock file.
ObservedMembers(t) == {s \in DOMAIN df_msf : MemberAt(s, t) /\ df_msf[s] # NoObs}

\* C5: right after the rebalance of a month in which every member has a row,
\* the weights of all securities sum to 1.
WeightsSumToOne ==
    ( /\ Reading
      /\ fault_B = None
      /\ rebalanced = date
      /\ \A s \in DOMAIN df_msf : MemberAt(s, date) => df_msf[s] # NoObs )
      => RSum(weights, DOMAIN weights) = One

\* A rebalance with two members of different market caps, both with a row,
\* after an earlier rebalance.
WeightsSumToOneWitness ==
    /\ Reading
    /\ fault_B = None
    /\ rebalanced = date
    /\ approx_B.ret_approx_B # None
    /\ \A s \in DOMAIN df_msf : MemberAt(s, date) /\ df_msf[s] # NoObs
    /\ \E s, u \in DOMAIN weights : weights[s] # weights[u]

\* Months a and b lie in the same calendar quarter: months 1 to 3, 4 to 6, ...
SameQuarter(a, b) ==
    \E q \in 0..MaxDate :
       {a, b} \subseteq (MonthsPerQuarter * q + 1) .. (MonthsPerQuarter * q + MonthsPerQuarter)

\* A step that reads a month with index data in which Method B does not fault.
PeriodStepB ==
    /\ date' = date + 1
    /\ HasIndexData(df_constituents, date')
    /\ fault_B' = None

\* C6: in a month that is not a rebalance date, Method B leaves the whole
\* weight mapping as it was after the month before, whatever the returns, the
\* market caps and the membership of the month are.
WeightsFrozenBetweenRebalances ==
    [][(PeriodStepB /\ rebalanced # 0 /\ SameQuarter(rebalanced, date'))
         => weights' = weights]_vars

\* A month that is not a rebalance date, in which the membership differs
\* from that of the rebalance date, a weighted security has a return other than
\* 0 and the market caps would give other weights.
WeightsFrozenWitness ==
    /\ Reading
    /\ fault_B = None
    /\ rebalanced # 0 /\ rebalanced < date
    /\ HasIndexData(df_constituents, date)
    /\ \E s \in DOMAIN df_msf : MemberAt(s, rebalanced) # MemberAt(s, date)
    /\ \E s \in DOMAIN df_msf :
         weights[s] # Zero /\ df_msf[s] # NoObs /\ df_msf[s].retx # Zero
    /\ ObservedMembers(date) # {}
    /\ weights # IndexWeights(df_constituents, date, df_msf)

\* C7: Method B's return of a month is the sum over the securities of the
\* weight held after the month before times the security's retx of the month:
\* not the weight a rebalance of the month itself gives, and never ret.
ReturnBFromHeldWeightsAndRetx ==
    [][(PeriodStepB /\ weights # None)
         => approx_B'.ret_approx_B =
              RSum([s \in DOMAIN weights |->
                      IF df_msf'[s] = NoObs THEN Zero
                      ELSE Rat(weights[s][1] * df_msf'[s].retx[1],
                               weights[s][2] * df_msf'[s].retx[2])],
                   DOMAIN weights)]_vars

\* A rebalance date whose new weights differ from the weights held before,
\* with a return that is not 0.
ReturnBWitness ==
    /\ Reading
    /\ fault_B = None
    /\ rebalanced = date
    /\ approx_B.ret_approx_B \notin {None, Zero}
    /\ \E s \in DOMAIN weights : weights[s] \notin {Zero, One}
    /\ \E s \in DOMAIN df_msf : df_msf[s] # NoObs /\ df_msf[s].ret # df_msf[s].retx

\* C8: Method B's level is the official level at the anchor, the first month
\* that both Method B and the official series have; in every later month
\* level_B(t) = level_B(t-1) * (1 + R_B(t)).
LevelBRecurrence ==
    [][PeriodStepB =>
         IF Anchored(approx_B)
         THEN RSub(approx_B'.level, approx_B.level)
                = RMul(approx_B.level, approx_B'.ret_approx_B)
         ELSE /\ approx_B'.level =
                   IF date' \in DOMAIN df_msix THEN <<df_msix[date'], 1>> ELSE None
              /\ (approx_B # None => approx_B.date \notin DOMAIN df_msix)]_vars

\* Two months after the anchor with returns other than 0.
LevelBWitness ==
    /\ fault_B = None
    /\ Anchored(approx_B)
    /\ Cardinality(dates_B) >= 3
    /\ approx_B.ret_approx_B \notin {None, Zero}
    /\ approx_B.level # RInt(df_msix[approx_B.date])

\* The first of the run's months with index data in the quarter of month t.
FirstPeriodOfQuarter(t) ==
    CHOOSE d \in PeriodsTo(t) :
       /\ SameQuarter(d, t)
       /\ \A e \in PeriodsTo(t) : SameQuarter(e, t) => d <= e

\* C9: Method B rebalances once in every calendar quarter that holds a month
\* of the run with index data: in the first such month of the quarter, and in
\* no other month of the quarter.
RebalanceFirstPeriodOfQuarter ==
    (Reading /\ fault_B = None /\ PeriodsTo(date) # {})
      => LET last == CHOOSE d \in PeriodsTo(date) : \A e \in PeriodsTo(date) : e <= d
         IN  rebalanced = FirstPeriodOfQuarter(last)

\* A run that began in the third month of a quarter: the portfolio was
\* rebalanced in month 3 and again in month 4.
RebalanceWitness ==
    /\ START_DATE = MonthsPerQuarter
    /\ date > MonthsPerQuarter
    /\ fault_B = None
    /\ rebalanced = MonthsPerQuarter + 1
    /\ PeriodsTo(date) = START_DATE..date

\* A step that reads month date + 1, which holds index data, while Method B
\* has not ended in a fault.
NextPeriodB ==
    /\ fault_B = None
    /\ date' = date + 1
    /\ HasIndexData(df_constituents, date')

\* Month date + 1 is a rebalance date on which no member has a row: the
\* rows of the stock file have a market cap above 0, so that this is when
\* the total market cap over the members is 0.
ZeroCapRebalance ==
    /\ rebalanced = 0 \/ ~SameQuarter(rebalanced, date')
    /\ \A s \in DOMAIN df_msf' : MemberAt(s, date') => df_msf'[s] = NoObs

\* C11: a rebalance date on which the total market cap over the members is 0
\* ends Method B in a fault that names the date and the rebalance: the
\* portfolio gets no weights at that date (the weight state stays as it was),
\* no return or level is kept, and no later month is processed; the fault is
\* a record of its own, apart from the counter of missing returns, which it
\* leaves alone.
ZeroTotalMarketCapIsAFaultB ==
    [][/\ (NextPeriodB /\ ZeroCapRebalance)
            => /\ fault_B' = [date |-> date', step |-> "rebalance"]
               /\ weights' = weights /\ rebalanced' = rebalanced
               /\ approx_B' = None /\ dates_B' = {}
               /\ missing_returns' = missing_returns
       /\ (NextPeriodB /\ ~ZeroCapRebalance)
            => /\ fault_B' = None
               /\ approx_B' # None /\ approx_B'.date = date'
       /\ fault_B # None
            => /\ UNCHANGED methodBVars
               /\ approx_B = None /\ dates_B = {}
      ]_vars

\* The rebalance of the second quarter found no member with a row: Method B
\* has ended in the fault and still holds the weights of the first quarter,
\* in which a missing return was counted.
ZeroTotalMarketCapWitnessB ==
    /\ fault_B # None
    /\ fault_B.date = date
    /\ weights # None /\ rebalanced # 0 /\ rebalanced < date
    /\ approx_B = None /\ dates_B = {}
    /\ missing_returns > 0

\* The weighted securities with no row in month date + 1.
MissingNext == {s \in DOMAIN weights : weights[s] # Zero /\ df_msf'[s] = NoObs}

HeldTerm(s) ==
    IF df_msf'[s] = NoObs THEN Zero
    ELSE Rat(weights[s][1] * df_msf'[s].retx[1],
             weights[s][2] * df_msf'[s].retx[2])

\* C24: a change of membership after the last rebalance date does not reach
\* the portfolio before the next one.  In a month Method B takes in, a
\* security that was a member at the last rebalance date and is one no
\* longer contributes its held weight times its retx to the month's return
\* and, the month being no rebalance date, keeps the weight; a security
\* that was no member at the last rebalance date and is one now has weight
\* 0, contributes nothing and, the month being no rebalance date, stays at 0.
MembershipChangeWaitsForRebalance ==
    [][(PeriodStepB /\ weights # None /\ rebalanced # 0)
         => \A s \in Permnos :
               LET rest == RSum([u \in Permnos \ {s} |-> HeldTerm(u)],
                                Permnos \ {s})
                   frozen == SameQuarter(rebalanced, date')
               IN  /\ (MemberAt(s, rebalanced) /\ ~MemberAt(s, date'))
                        => /\ approx_B'.ret_approx_B = RAdd(rest, HeldTerm(s))
                           /\ frozen => weights'[s] = weights[s]
                   /\ (~MemberAt(s, rebalanced) /\ MemberAt(s, date'))
                        => /\ weights[s] = Zero
                           /\ approx_B'.ret_approx_B = rest
                           /\ frozen => weights'[s] = Zero
      ]_vars

\* Month 3 of a run rebalanced in month 1: security 1, the only member
\* then, has left after month 2 and security 2 has joined in month 3.  The
\* weights are still 1 and 0, and the month's return is the retx of
\* security 1, not 0, though both have a row.
MembershipChangeWitness ==
    /\ fault_B = None
    /\ rebalanced # 0 /\ rebalanced < date
    /\ SameQuarter(rebalanced, date)
    /\ approx_B # None /\ approx_B.date = date
    /\ MemberAt(1, rebalanced) /\ ~MemberAt(1, date)
    /\ ~MemberAt(2, rebalanced) /\ MemberAt(2, date)
    /\ weights = <<One, Zero>>
    /\ \A s \in Permnos : df_msf[s] # NoObs
    /\ approx_B.ret_approx_B = df_msf[1].retx
    /\ approx_B.ret_approx_B # Zero
    /\ df_msf[2].retx # Zero

\* C25: from the first rebalance on, in every state in which Method B has
\* not faulted, no weight is negative and the weights sum to exactly 1,
\* also when a member of the last rebalance date had no row in its month.
WeightsAreADistribution ==
    (fault_B = None /\ weights # None)
      => /\ \A s \in DOMAIN weights : weights[s][1] >= 0 /\ weights[s][2] > 0
         /\ RSum(weights, DOMAIN weights) = One

\* A second rebalance at which both securities are members and security 2
\* has no row: the whole weight is on security 1, whose price is reported
\* negative.
WeightsDistributionWitness ==
    /\ fault_B = None
    /\ rebalanced = date /\ date > START_DATE
    /\ approx_B.ret_approx_B # None
    /\ MemberAt(1, date) /\ MemberAt(2, date)
    /\ df_msf[1] # NoObs /\ df_msf[2] = NoObs
    /\ df_msf[1].prc < 0
    /\ weights = <<One, Zero>>

\* C26: the first month Method B takes in is a rebalance date, whatever its
\* place in its calendar quarter: it gives weights and no return.  A return
\* is computed only from weights that a rebalance of an earlier month of
\* the run has given, which are not empty: they sum to 1.
FirstPeriodIsARebalance ==
    [][(PeriodStepB /\ fault_B = None)
         => /\ approx_B = None
                 => /\ rebalanced' = date'
                    /\ weights' # None
                    /\ weights' = IndexWeights(df_constituents, date', df_msf')
                    /\ approx_B'.ret_approx_B = None
            /\ approx_B'.ret_approx_B # None
                 => /\ approx_B # None
                    /\ weights # None
                    /\ rebalanced \in PeriodsTo(date)
                    /\ RSum(weights, DOMAIN weights) = One
      ]_vars

\* A run that starts in month 2, in the middle of a calendar quarter: the
\* weights are those of month 2, and month 3 has a return from them that is
\* not 0.
FirstPeriodWitness ==
    /\ fault_B = None
    /\ START_DATE = 2 /\ rebalanced = 2 /\ date = 3
    /\ weights # None
    /\ \E s \in DOMAIN weights : weights[s] \notin {Zero, One}
    /\ approx_B.date = 3
    /\ approx_B.ret_approx_B # None /\ approx_B.ret_approx_B # Zero

----------------------------------------------------------------------------
(* Properties of the normalization *)

\* The months up to d that both an approximation and the official series
\* have.
CommonDates(d) == {t \in PeriodsTo(d) : t \in DOMAIN df_msix}

\* The row and the months with a level of a method are anchored at the
\* first common month.
AnchoredAtFirstCommon(row, dates) ==
    IF CommonDates(date) = {}
    THEN dates = {} /\ (row # None => row.level = None)
    ELSE LET t0 == CHOOSE t \in CommonDates(date) : \A u \in CommonDates(date) : t <= u
         IN  /\ t0 \in dates
             /\ \A d \in dates : t0 <= d
             /\ row.date = t0 => row.level = <<df_msix[t0], 1>>
             /\ row.date > t0 => row.level # None

\* C15: whichever of the official series and an approximation starts first,
\* the level of Method A and of Method B at the earliest month that both
\* series have is the official level of that month, and neither method has a
\* level for a month before it.
AnchorAtFirstCommonDate ==
    /\ (Reading /\ fault_A = None) => AnchoredAtFirstCommon(approx_A, dates_A)
    /\ (Reading /\ fault_B = None) => AnchoredAtFirstCommon(approx_B, dates_B)

\* The approximations start a month before the official series, and the
\* run does not start in month 1: the only levels are those of the second
\* month of the run, and they are the official level of that month.
AnchorWitness ==
    /\ START_DATE > 1
    /\ START_DATE \notin DOMAIN df_msix
    /\ HasIndexData(df_constituents, START_DATE)
    /\ date = START_DATE + 1
    /\ fault_A = None /\ fault_B = None
    /\ dates_A = {date} /\ dates_B = {date}
    /\ approx_A.level = <<df_msix[date], 1>>
    /\ approx_B.level = <<df_msix[date], 1>>
    /\ approx_B.ret_approx_B # None

----------------------------------------------------------------------------
(* The comparison with the official series, on its own: any two series *)

\* sprtrn of month d: the return of spindx, NaN in the first month.
sprtrn(msix, d) ==
    IF d - 1 \in DOMAIN msix THEN Rat(msix[d] - msix[d - 1], msix[d - 1]) ELSE None

\* df_msix[["date", "spindx", "sprtrn"]]: the rows of the months D, in date
\* order.
RECURSIVE OfficialRows(_, _)
OfficialRows(msix, D) ==
    IF D = {} THEN <<>>
    ELSE LET d == CHOOSE t \in D : \A u \in D : t <= u
         IN  <<[date |-> d, spindx |-> msix[d], sprtrn |-> sprtrn(msix, d)]>>
               \o OfficialRows(msix, D \ {d})

\* The returns of Method B's rows in the comparison.
SeriesReturns == {<<-1, 2>>, <<1, 2>>}

\* A series of Method B: the rows of the months D with the returns f, in
\* date order.
RECURSIVE SeriesOf(_, _)
SeriesOf(f, D) ==
    IF D = {} THEN <<>>
    ELSE LET d == CHOOSE t \in D : \A u \in D : t <= u
         IN  <<[date |-> d, ret_approx_B |-> f[d]]>> \o SeriesOf(f, D \ {d})

\* The rows of l joined with the rows ms of the other table.
JoinedRows(l, ms) ==
    [k \in 1..Len(ms) |->
       [date |-> l.date, spindx |-> l.spindx, sprtrn |-> l.sprtrn,
        ret_approx_B |-> ms[k].ret_approx_B]]

\* how="left": a row of the official series with no partner is kept, with
\* NaN for the approximation.
RECURSIVE merge_left(_, _)
merge_left(left, right) ==
    IF left = <<>> THEN <<>>
    ELSE LET l == Head(left)
             ms == SelectSeq(right, LAMBDA r : r.date = l.date)
         IN  (IF ms = <<>> THEN JoinedRows(l, <<[ret_approx_B |-> None]>>)
              ELSE JoinedRows(l, ms)) \o merge_left(Tail(left), right)

\* pd.merge(left, right, on="date", how="inner"): a row for every pair of a
\* row of left and a row of right with the same date, in the order of left.
RECURSIVE merge(_, _)
merge(left, right) ==
    IF left = <<>> THEN <<>>
    ELSE LET l == Head(left)
             ms == SelectSeq(right, LAMBDA r : r.date = l.date)
         IN  JoinedRows(l, ms) \o merge(Tail(left), right)

InitMerge ==
    /\ df_constituents = <<>>
    /\ mydate = 0
    /\ constituents = <<>>
    /\ START_DATE = 1
    /\ \E D \in SUBSET (1..MaxDate) : df_msix = [d \in D |-> spindx(d)]
    /\ date = MaxDate
    /\ df_msf = [i \in Permnos |-> NoObs]
    /\ sp500_total_market_cap = None
    /\ approx_A = None
    /\ dates_A = {}
    /\ anchor_A = None
    /\ cumret_approx_A = None
    /\ fault_A = None
    /\ weights = None
    /\ rebalanced = 0
    /\ approx_B = None
    /\ dates_B = {}
    /\ missing_returns = 0
    /\ fault_B = None
    /\ \E D \in SUBSET (1..MaxDate) : \E f \in [D -> SeriesReturns] :
         sp500_returns_B = SeriesOf(f, D)
    /\ pc = "returns"

\* sp500_returns_B = pd.merge(df_msix[["date", "spindx", "sprtrn"]],
\*                            sp500_returns_B, on="date", how="inner")
MergeWithOfficial ==
    /\ pc = "returns"
    /\ sp500_returns_B' = merge(OfficialRows(df_msix, DOMAIN df_msix), sp500_returns_B)
    /\ pc' = "merged"
    /\ UNCHANGED <<queryVars, inputVars, date, df_msf, methodAVars, methodBVars>>

NextMerge == MergeWithOfficial

SpecMerge == InitMerge /\ [][NextMerge]_vars

\* The dates of the rows of a table.
DatesOf(table) == {table[k].date : k \in 1..Len(table)}

\* C16: the table that joins Method B's series with the official series has
\* one row, and no more, for every date that both series have, with the
\* values of the two rows of that date, and no row for a date that only one
\* of them has; when either series is empty, so is the joined table.
InnerJoinOnCommonDates ==
    [][(pc = "returns" /\ pc' = "merged")
         => LET common == DatesOf(sp500_returns_B) \cap DOMAIN df_msix
                joined == sp500_returns_B'
            IN  /\ DatesOf(joined) = common
                /\ Len(joined) = Cardinality(common)
                /\ \A k \in 1..Len(joined) :
                     /\ joined[k].spindx = df_msix[joined[k].date]
                     /\ \E j \in 1..Len(sp500_returns_B) :
                          /\ sp500_returns_B[j].date = joined[k].date
                          /\ sp500_returns_B[j].ret_approx_B = joined[k].ret_approx_B
                /\ (sp500_returns_B = <<>> \/ df_msix = <<>>) => joined = <<>>
      ]_vars

\* A joined table of two rows with different returns, of months that are
\* not consecutive, from an official series that has a third month.
InnerJoinWitness ==
    /\ pc = "merged"
    /\ Len(sp500_returns_B) = 2
    /\ Cardinality(DOMAIN df_msix) = 3
    /\ sp500_returns_B[1].ret_approx_B # sp500_returns_B[2].ret_approx_B
    /\ sp500_returns_B[1].date + 1 < sp500_returns_B[2].date

----------------------------------------------------------------------------
(* The weight calculation on its own: three securities, rebalance dates only *)

ExamplePermnos == {1, 2, 3}

\* The rows of the example: market caps 100, 200 and 300.
ExampleRows ==
    StockRows \cup
    { [prc |-> 40, shrout |-> 10, cfacpr |-> 2, cfacshr |-> 1,
       ret |-> <<1, 4>>, retx |-> <<0, 1>>] }

\* Every security is a member from the start, until the end or until month
\* 2, or joins in month 3.
ExampleTables ==
    {TableOf(f, ExamplePermnos) :
       f \in [ExamplePermnos -> RunIntervals \ {<<>>, Reentry}]}

InitWeights ==
    /\ df_constituents \in ExampleTables
    /\ mydate = 0
    /\ constituents = <<>>
    /\ START_DATE = 1
    /\ df_msix = [d \in 1..MaxDate |-> spindx(d)]
    /\ date = 0
    /\ df_msf = [i \in ExamplePermnos |-> NoObs]
    /\ sp500_total_market_cap = None
    /\ approx_A = None
    /\ dates_A = {}
    /\ anchor_A = None
    /\ cumret_approx_A = None
    /\ fault_A = None
    /\ weights = None
    /\ rebalanced = 0
    /\ approx_B = None
    /\ dates_B = {}
    /\ missing_returns = 0
    /\ fault_B = None
    /\ sp500_returns_B = <<>>
    /\ pc = "run"

\* Method B over a stock file that holds the first month of each quarter
\* only: every month read is a rebalance date.
ReadQuarter(msf) ==
    LET t == IF date = 0 THEN START_DATE ELSE date + MonthsPerQuarter
    IN  /\ t <= MaxDate
        /\ date' = t
        /\ df_msf' = msf
        /\ MethodB(t, msf)
        /\ UNCHANGED <<queryVars, inputVars, methodAVars, compareVars>>

NextWeights ==
    \E msf \in [ExamplePermnos -> ExampleRows \cup {NoObs}] : ReadQuarter(msf)

SpecWeights == InitWeights /\ [][NextWeights]_vars

\* The market cap of the row of security s, in whole numbers.
CapOf(s) ==
    (Abs(df_msf[s].prc) * df_msf[s].shrout * df_msf[s].cfacshr) \div df_msf[s].cfacpr

RECURSIVE SumOver(_, _)
SumOver(S, f) ==
    IF S = {} THEN 0
    ELSE LET i == CHOOSE j \in S : TRUE IN f[i] + SumOver(S \ {i}, f)

\* The weights of the state are those of a rebalance in the month of the state.
RebalancedWeights ==
    LET I == ObservedMembers(date)
        total == SumOver(I, [s \in I |-> CapOf(s)])
    IN  /\ \A s \in I : weights[s] = Rat(CapOf(s), total)
        /\ \A s \in DOMAIN weights \ I : weights[s] = Zero
        /\ ( /\ I = {1, 2, 3}
             /\ CapOf(1) = 100 /\ CapOf(2) = 200 /\ CapOf(3) = 300 )
             => weights = <<<<1, 6>>, <<1, 3>>, <<1, 2>>>>

ExampleWeightsReached ==
    /\ fault_B = None
    /\ rebalanced = date
    /\ ObservedMembers(date) = {1, 2, 3}
    /\ CapOf(1) = 100 /\ CapOf(2) = 200 /\ CapOf(3) = 300
    /\ weights = <<<<1, 6>>, <<1, 3>>, <<1, 2>>>>

----------------------------------------------------------------------------
(* The run over a stock file whose returns are those of its prices         *)
(*                                                                         *)
(* Security 1 (X) is quoted at 10 or 11 with 100 shares, or at 11 after an *)
(* issue that doubles its shares; security 2 (Y) at 20 or 18 with 50       *)
(* shares, or has no row.  No dividend is paid and no adjustment factor    *)
(* changes: ret and retx of a row are the relative change of the price     *)
(* since the row of the month before.                                      *)

\* The quotes <<prc, shrout>> of a security in a month, <<>> for no row.
Quotes ==
    <<{<<10, 100>>, <<11, 100>>, <<11, 200>>}, {<<20, 50>>, <<18, 50>>, <<>>}>>

\* retx of a row with price prc after the row last: 0 when there is none.
PriceReturn(last, prc) ==
    IF last = NoObs THEN Zero ELSE Rat(prc - last.prc, last.prc)

\* The row of the stock file for the quote q, after the row last.
QuotedRow(last, q) ==
    IF q = <<>> THEN NoObs
    ELSE [prc |-> q[1], shrout |-> q[2], cfacpr |-> 1, cfacshr |-> 1,
          ret |-> PriceReturn(last, q[1]), retx |-> PriceReturn(last, q[1])]

\* The run ends with the first month of the second quarter.
PricesEnd == MonthsPerQuarter + 1

\* Two intervals of a security that both cover months 2 and 3.
Overlap == <<1, 3, 2, MaxDate>>

\* The same interval of a security in two rows.
Duplicate == <<1, MaxDate, 1, MaxDate>>

\* Every security is never a member, a member for the whole span, or joins
\* in month 3, or has two rows that overlap or are the same.
PricesTables ==
    {TableOf(f, Permnos) :
       f \in [Permnos -> {<<>>, <<1, MaxDate>>, <<3, MaxDate>>, Overlap, Duplicate}]}

InitPrices ==
    /\ df_constituents \in PricesTables
    /\ mydate = 0
    /\ constituents = <<>>
    /\ START_DATE \in 2..MonthsPerQuarter
    /\ df_msix = [d \in 1..MaxDate |-> spindx(d)]
    /\ date = START_DATE - 1
    /\ df_msf = [i \in Permnos |-> NoObs]
    /\ sp500_total_market_cap = None
    /\ approx_A = None
    /\ dates_A = {}
    /\ anchor_A = None
    /\ cumret_approx_A = None
    /\ fault_A = None
    /\ weights = None
    /\ rebalanced = 0
    /\ approx_B = None
    /\ dates_B = {}
    /\ missing_returns = 0
    /\ fault_B = None
    /\ sp500_returns_B = <<>>
    /\ pc = "run"

\* The next month of the stock file, with the quotes q, is read and both
\* methods take it in.
ReadPrices(q) ==
    LET msf == [i \in Permnos |-> QuotedRow(df_msf[i], q[i])]
    IN  /\ date < PricesEnd
        /\ date' = date + 1
        /\ df_msf' = msf
        /\ MethodA(date + 1, msf)
        /\ MethodB(date + 1, msf)
        /\ UNCHANGED <<queryVars, inputVars, compareVars>>

NextPrices ==
    \E q \in {g \in [Permnos -> Quotes[1] \cup Quotes[2]] :
                \A i \in Permnos : g[i] \in Quotes[i]} : ReadPrices(q)

SpecPrices == InitPrices /\ [][NextPrices]_vars

\* Two rows of the membership table, both of security s, cover month t.
Ambiguous(s, t) ==
    \E i, j \in RowsOf(s) :
       /\ i # j
       /\ t \in df_constituents[i].mbrstartdt .. df_constituents[i].mbrenddt
       /\ t \in df_constituents[j].mbrstartdt .. df_constituents[j].mbrenddt

\* The membership table with its rows in the order p.
Reordered(p) == [k \in 1..Len(df_constituents) |-> df_constituents[p[k]]]

SteadyShares(s) ==
    /\ df_msf[s] # NoObs /\ df_msf'[s] # NoObs
    /\ df_msf'[s].shrout = df_msf[s].shrout /\ df_msf[s].shrout > 0
    /\ df_msf'[s].cfacshr = df_msf[s].cfacshr
    /\ df_msf'[s].cfacpr = df_msf[s].cfacpr
    /\ df_msf[s].prc # 0
    /\ df_msf'[s].retx =
         Rat(Abs(df_msf'[s].prc) - Abs(df_msf[s].prc), Abs(df_msf[s].prc))

\* Security s is the only constituent, for the whole span of the data.
SingleSecurity(s) ==
    df_constituents = <<[permno |-> s, mbrstartdt |-> 1, mbrenddt |-> MaxDate]>>

\* A step to month date + 1, after the anchor, of a run in which s is the
\* only constituent and has had a row in every month.
SingleSecurityStep(s) ==
    /\ SingleSecurity(s)
    /\ date' = date + 1
    /\ fault_A = None /\ fault_B = None /\ missing_returns = 0
    /\ Anchored(approx_A) /\ Anchored(approx_B)
    /\ df_msf[s] # NoObs /\ df_msf'[s] # NoObs

\* C19 as claimed: with one constituent for the whole period and no missing
\* row, return_A and R_B of every month after the anchor are the security's
\* retx of the month, and the two levels are equal.
SingleSecurityPriceReturn ==
    [][\A s \in Permnos :
         SingleSecurityStep(s)
           => /\ approx_A'.ret_approx_A = df_msf'[s].retx
              /\ approx_B'.ret_approx_B = df_msf'[s].retx
              /\ approx_A'.level = approx_B'.level]_vars

\* C19, amended: with one constituent for the whole period and no missing
\* row, R_B of every month after the anchor is the security's retx of the
\* month and return_A is the relative change of its market cap; return_A is
\* the retx too in a month over which the security's shares and adjustment
\* factors have not changed and whose retx is the relative change of the
\* price, and the two levels, equal at the anchor, stay equal over such a
\* month.
SingleSecurityOwnSeries ==
    [][\A s \in Permnos :
         /\ SingleSecurityStep(s)
              => /\ approx_B'.ret_approx_B = df_msf'[s].retx
                 /\ RMul(RAdd(approx_A'.ret_approx_A, One), market_cap(df_msf[s]))
                      = market_cap(df_msf'[s])
                 /\ SteadyShares(s)
                      => /\ approx_A'.ret_approx_A = df_msf'[s].retx
                         /\ approx_A.level = approx_B.level
                              => approx_A'.level = approx_B'.level
         /\ ( /\ SingleSecurity(s) /\ date' = date + 1 /\ df_msf'[s] # NoObs
              /\ fault_A = None /\ fault_B = None
              /\ approx_A = None /\ approx_B = None )
              => /\ approx_A'.level = <<df_msix[date'], 1>>
                 /\ approx_B'.level = approx_A'.level]_vars

\* Two months after the anchor of a run with security 1 alone, its shares
\* unchanged: both returns are its retx, which is not 0, and the levels are
\* equal and have moved.
SingleSecurityWitness ==
    /\ SingleSecurity(1)
    /\ fault_A = None /\ fault_B = None
    /\ Cardinality(dates_A) >= 3 /\ dates_B = dates_A
    /\ df_msf[1].shrout = 100
    /\ df_msf[1].retx # Zero
    /\ approx_A.ret_approx_A = df_msf[1].retx
    /\ approx_B.ret_approx_B = df_msf[1].retx
    /\ approx_A.level = approx_B.level
    /\ approx_A.level # <<df_msix[date], 1>>

\* Months date and date + 1 are two periods t0 and t1: t0 is a rebalance
\* date with a level of both methods, the membership is the same in both,
\* and every member has a row in both, with the same shares and adjustment
\* factors and a retx that is the relative change of its price.
TwoPeriods ==
    /\ date' = date + 1
    /\ fault_A = None /\ fault_B = None
    /\ rebalanced = date
    /\ Anchored(approx_A) /\ Anchored(approx_B)
    /\ \E s \in Permnos : MemberAt(s, date)
    /\ \A s \in Permnos :
         /\ MemberAt(s, date) = MemberAt(s, date')
         /\ MemberAt(s, date) => SteadyShares(s)

\* X goes from 10 to 11 with 100 shares, Y from 20 to 18 with 50 shares, and
\* both are members.
ScenarioXY ==
    /\ \A s \in Permnos : MemberAt(s, date)
    /\ df_msf[1].prc = 10 /\ df_msf[1].shrout = 100 /\ df_msf'[1].prc = 11
    /\ df_msf[2].prc = 20 /\ df_msf[2].shrout = 50 /\ df_msf'[2].prc = 18

\* C20: over two periods t0, t1 with t0 a rebalance date, the same members
\* in both, a row of every member in both, shares and adjustment factors
\* unchanged and retx the relative change of the price, Method B's return of
\* t1 is Method A's return of t1; when X goes from 1000 to 1100 and Y from
\* 1000 to 900, both returns are 0 and both levels at t1 are those at t0.
MethodsAgreeOverTwoPeriods ==
    [][TwoPeriods
         => /\ fault_A' = None /\ fault_B' = None
            /\ approx_A'.ret_approx_A # None
            /\ approx_B'.ret_approx_B = approx_A'.ret_approx_A
            /\ ScenarioXY
                 => /\ market_cap(df_msf[1]) = RInt(1000)
                    /\ market_cap(df_msf'[1]) = RInt(1100)
                    /\ market_cap(df_msf[2]) = RInt(1000)
                    /\ market_cap(df_msf'[2]) = RInt(900)
                    /\ weights = <<<<1, 2>>, <<1, 2>>>>
                    /\ approx_A'.ret_approx_A = Zero
                    /\ approx_B'.ret_approx_B = Zero
                    /\ approx_A'.level = approx_A.level
                    /\ approx_B'.level = approx_B.level]_vars

\* The scenario has been run: t0 was the rebalance date of month 2, and in
\* month 3 X is at 11 with retx 1/10, Y at 18 with retx -1/10, the total
\* market cap is 2000, both returns are 0 and both levels are the official
\* level of month 2.
TwoPeriodsWitness ==
    /\ date = START_DATE + 1
    /\ rebalanced = START_DATE
    /\ \A s \in Permnos : MemberAt(s, START_DATE) /\ MemberAt(s, date)
    /\ \A s \in Permnos : df_msf[s] # NoObs
    /\ df_msf[1].prc = 11 /\ df_msf[1].shrout = 100 /\ df_msf[1].retx = <<1, 10>>
    /\ df_msf[2].prc = 18 /\ df_msf[2].retx = <<-1, 10>>
    /\ weights = <<<<1, 2>>, <<1, 2>>>>
    /\ sp500_total_market_cap.sp500_market_cap = RInt(2000)
    /\ approx_A.ret_approx_A = Zero /\ approx_B.ret_approx_B = Zero
    /\ approx_A.level = <<df_msix[START_DATE], 1>>
    /\ approx_B.level = <<df_msix[START_DATE], 1>>

-----------------------------------------------------------------------------
(* The adjusted columns of the stock file *)

\* The rows of df_msf as loaded: a price that CRSP reports negative when it
\* is a bid-ask midpoint, shares outstanding, and strictly positive
\* cumulative adjustment factors.
LoadedRows ==
    [prc : -MaxQuote..MaxQuote, shrout : 0..MaxQuote,
     cfacpr : 1..MaxQuote, cfacshr : 1..MaxQuote, ret : {Zero}, retx : {Zero}]

InitMarketCap ==
    /\ df_constituents = <<>>
    /\ mydate = 0
    /\ constituents = <<>>
    /\ START_DATE = 1
    /\ df_msix = [d \in 1..MaxDate |-> spindx(d)]
    /\ date = 1
    /\ df_msf \in [Permnos -> LoadedRows]
    /\ sp500_total_market_cap = None
    /\ approx_A = None
    /\ dates_A = {}
    /\ anchor_A = None
    /\ cumret_approx_A = None
    /\ fault_A = None
    /\ weights = None
    /\ rebalanced = 0
    /\ approx_B = None
    /\ dates_B = {}
    /\ missing_returns = 0
    /\ fault_B = None
    /\ sp500_returns_B = <<>>
    /\ pc = "load"

\* df_msf["adj_shrout"] = ..., df_msf["adj_prc"] = ...,
\* df_msf["market_cap"] = ...: three columns are added to every row.
AdjustColumns ==
    /\ pc = "load"
    /\ df_msf' = [s \in Permnos |->
                    [prc |-> df_msf[s].prc, shrout |-> df_msf[s].shrout,
                     cfacpr |-> df_msf[s].cfacpr, cfacshr |-> df_msf[s].cfacshr,
                     ret |-> df_msf[s].ret, retx |-> df_msf[s].retx,
                     adj_shrout |-> adj_shrout(df_msf[s]),
                     adj_prc |-> adj_prc(df_msf[s]),
                     market_cap |-> market_cap(df_msf[s])]]
    /\ pc' = "adjusted"
    /\ UNCHANGED <<queryVars, inputVars, date, methodAVars, methodBVars,
                   sp500_returns_B>>

NextMarketCap == AdjustColumns

SpecMarketCap == InitMarketCap /\ [][NextMarketCap]_vars

\* Rows a and b differ in the sign of the price and in nothing else loaded.
OppositePrices(a, b) ==
    /\ a.prc = -b.prc /\ a.prc # 0
    /\ a.shrout = b.shrout
    /\ a.cfacpr = b.cfacpr /\ a.cfacshr = b.cfacshr

\* C22: with strictly positive adjustment factors, the market cap of every
\* row is |prc| / cfacpr times shrout * cfacshr, it is never negative, and
\* two rows that differ only in the sign of the price have the same one.
MarketCapFromAbsolutePrice ==
    pc = "adjusted"
      => \A s \in Permnos :
            LET o == df_msf[s]
            IN  /\ o.cfacpr > 0 /\ o.cfacshr > 0
                /\ o.market_cap
                     = Rat(Abs(o.prc) * o.shrout * o.cfacshr, o.cfacpr)
                /\ o.market_cap[1] >= 0 /\ o.market_cap[2] > 0
                /\ \A u \in Permnos :
                     OppositePrices(o, df_msf[u])
                       => o.market_cap = df_msf[u].market_cap

\* The columns are computed for a price of -2 and a price of 2 with 1
\* share and both factors 2: the market cap of both rows is 2.
MarketCapWitness ==
    /\ pc = "adjusted"
    /\ df_msf[1].prc = -2 /\ df_msf[2].prc = 2
    /\ OppositePrices(df_msf[1], df_msf[2])
    /\ df_msf[1].shrout = 1 /\ df_msf[1].cfacpr = 2 /\ df_msf[1].cfacshr = 2
    /\ df_msf[1].market_cap = RInt(2)
    /\ df_msf[2].market_cap = RInt(2)

=============================================================================
